---- MODULE Spec2Model ----
(***************************************************************************)
(* Model of the sflk front end:                                            *)
(*   - src/src/parser.rs: SourceCodeUnit, ReadingHead (the tokenizer);     *)
(*   - src/sflk-lang/src/ast.rs: the AST, is_invalid and the lowering to   *)
(*     the program IR.                                                     *)
(* Strings are sequences of bytes, as Rust's String is; a byte offset o    *)
(* of the code is the position o+1 of the sequence.                        *)
(***************************************************************************)
EXTENDS Integers, Sequences, FiniteSets, TLC

VARIABLES
    src,      \* the &str handed to SourceCodeUnit::from_str
    scu,      \* the SourceCodeUnit (content, line_offsets), NoScu before from_str
    head,     \* the ReadingHead (raw_index, line)
    ret,      \* what the last operation returned, and the head it was called on
    node,     \* an AST node (sort, kind and children)
    checked,  \* <<b>> when is_invalid returned b for node, <<>> before the call
    lowered   \* <<ir>> when to_machine_* returned ir for node, <<>> before the call

vars == <<src, scu, head, ret, node, checked, lowered>>

lexvars == <<src, scu, head, ret>>

astvars == <<node, checked, lowered>>

(***************************************************************************)
(* Bounds.                                                                 *)
(***************************************************************************)
\* the longest enumerated source text, in characters
MaxLen == 3

\* how many constructors are stacked over a leaf of the AST
MaxDepth == 3

(***************************************************************************)
(* Characters.  An ASCII character is its own single byte; U+00E9 is the   *)
(* two bytes 0xC3 0xA9.                                                    *)
(***************************************************************************)
EAcute == "U+00E9"

Utf8Lead == "0xC3"

Utf8Cont == "0xA9"

\* char::len_utf8
len_utf8(ch) == IF ch = EAcute THEN 2 ELSE 1

\* the bytes of one character (String::push, str::bytes)
Utf8OfChar(ch) == IF ch = EAcute THEN <<Utf8Lead, Utf8Cont>> ELSE <<ch>>

RECURSIVE Utf8(_)
\* the bytes of a sequence of characters
Utf8(cs) == IF cs = <<>> THEN <<>> ELSE Utf8OfChar(Head(cs)) \o Utf8(Tail(cs))

\* char::is_ascii_alphabetic, over the letters the source texts use
AsciiLetters == {"a", "b", "c", "x", "o", "m", "e", "n", "t", "u", "r", "i", "d"}

is_ascii_alphabetic(ch) == ch \in AsciiLetters

\* char::is_ascii_digit, over the digits the source texts use
AsciiDigits == {"1", "2", "3"}

is_ascii_digit(ch) == ch \in AsciiDigits

\* char::is_ascii_whitespace: space, tab, line feed, form feed, carriage return
is_ascii_whitespace(ch) == ch \in {" ", "\t", "\n", "\f", "\r"}

(***************************************************************************)
(* The source texts.                                                       *)
(***************************************************************************)
Alphabet == {"a", "1", "#", " ", "\n", "+", "(", EAcute}

RECURSIVE CharSeqs(_)
\* the sequences of at most n characters of Alphabet
CharSeqs(n) ==
    IF n = 0 THEN {<<>>}
    ELSE LET shorter == CharSeqs(n - 1)
         IN  shorter \cup {Append(cs, ch) : cs \in {x \in shorter : Len(x) = n - 1},
                                             ch \in Alphabet}

\* the texts the spec's testable properties name, and a few longer ones
Examples ==
    { <<"a", "b", "c", "1", "2", "3">>,
      <<"#", " ", "c", "o", "m", "m", "e", "n", "t", "\n", "x">>,
      <<"#", "u", "n", "t", "e", "r", "m", "i", "n", "a", "t", "e", "d">>,
      <<"@">>,
      <<"(", "a", "-", "1", ")", "\n">>,
      <<"[", "*", "]", "{", "/", "}", "\t">>,
      <<"#", "a", "#", "\n", "\n", "#", "b", "\n", "c">>,
      <<"#", "\n", "#", "\n", "x", EAcute, "#">> }

Sources == {Utf8(cs) : cs \in CharSeqs(MaxLen) \cup Examples}

(***************************************************************************)
(* SourceCodeUnit (parser.rs 3-40).                                        *)
(***************************************************************************)
NoScu == [content |-> <<>>, line_offsets |-> <<>>]

RECURSIVE line_offsets_iter(_, _)
\* parser.rs 17-24: i+1 for every byte i of s that is '\n', in order
line_offsets_iter(s, i) ==
    IF i >= Len(s) THEN <<>>
    ELSE IF s[i + 1] = "\n" THEN <<i + 1>> \o line_offsets_iter(s, i + 1)
    ELSE line_offsets_iter(s, i + 1)

\* parser.rs 16-39
from_str(s) ==
    LET line_offsets == <<0>> \o line_offsets_iter(s, 0)
    IN  IF line_offsets[Len(line_offsets)] # Len(s)
        THEN [content |-> s \o <<"\n">>,
              line_offsets |-> Append(line_offsets, Len(s) + 1)]
        ELSE [content |-> s, line_offsets |-> line_offsets]

(***************************************************************************)
(* ReadingHead (parser.rs 66-137).                                         *)
(***************************************************************************)
None == "None"

NoLoc == [line_start |-> 0, raw_index_start |-> 0, raw_length |-> 0]

\* parser.rs 81-87
from_scu == [raw_index |-> 0, line |-> 1]

\* parser.rs 89-91: the character that starts at byte raw_index, None at the end
peek_cur_char(content, h) ==
    IF h.raw_index >= Len(content) THEN None
    ELSE IF content[h.raw_index + 1] = Utf8Lead THEN EAcute
    ELSE content[h.raw_index + 1]

\* goto_next_char without the line count (parser.rs 96-99 left out)
goto_next_char_no_line(content, h) ==
    LET ch == peek_cur_char(content, h)
    IN  IF ch = None THEN h
        ELSE [raw_index |-> h.raw_index + len_utf8(ch), line |-> h.line]

\* parser.rs 93-101
goto_next_char(content, h) ==
    LET ch == peek_cur_char(content, h)
    IN  IF ch = None THEN h
        ELSE [raw_index |-> h.raw_index + len_utf8(ch),
              line |-> IF ch = "\n" THEN h.line + 1 ELSE h.line]

\* parser.rs 103-113
cur_char_loc(content, h) ==
    [line_start |-> h.line,
     raw_index_start |-> h.raw_index,
     raw_length |-> LET ch == peek_cur_char(content, h)
                    IN  IF ch = None THEN 0 ELSE len_utf8(ch)]

RECURSIVE skip_ws_loop_line(_, _, _)
\* skip_ws_loop with comments that a line feed closes as well
skip_ws_loop_line(content, h, comment) ==
    LET ch == peek_cur_char(content, h)
    IN  CASE ch = "#" /\ comment = <<>> ->
                skip_ws_loop_line(content, goto_next_char(content, h),
                                  <<cur_char_loc(content, h)>>)
          [] ch # None /\ comment = <<>> /\ ~is_ascii_whitespace(ch) ->
                [ok |-> TRUE, head |-> h, loc |-> NoLoc]
          [] ch \in {"#", "\n"} /\ comment # <<>> ->
                skip_ws_loop_line(content, goto_next_char(content, h), <<>>)
          [] ch = None /\ comment # <<>> ->
                [ok |-> FALSE, head |-> h, loc |-> comment[1]]
          [] ch = None /\ comment = <<>> ->
                [ok |-> TRUE, head |-> h, loc |-> NoLoc]
          [] OTHER ->
                skip_ws_loop_line(content, goto_next_char(content, h), comment)

RECURSIVE skip_ws_loop(_, _, _)
\* parser.rs 117-134: the loop of skip_ws; comment is the Option<Loc> of the
\* code, <<>> for None and <<loc>> for Some(loc)
skip_ws_loop(content, h, comment) ==
    LET ch == peek_cur_char(content, h)
    IN  CASE ch = "#" /\ comment = <<>> ->
                skip_ws_loop(content, goto_next_char(content, h),
                             <<cur_char_loc(content, h)>>)
          [] ch # None /\ comment = <<>> /\ ~is_ascii_whitespace(ch) ->
                [ok |-> TRUE, head |-> h, loc |-> NoLoc]
          [] ch = "#" /\ comment # <<>> ->
                skip_ws_loop(content, goto_next_char(content, h), <<>>)
          [] ch = None /\ comment # <<>> ->
                [ok |-> FALSE, head |-> h, loc |-> comment[1]]
          [] ch = None /\ comment = <<>> ->
                [ok |-> TRUE, head |-> h, loc |-> NoLoc]
          [] OTHER ->
                skip_ws_loop(content, goto_next_char(content, h), comment)

\* skip_ws reporting the Loc of the end of input, not of the comment
skip_ws_eof_loc(content, h) ==
    LET r == skip_ws_loop(content, h, <<>>)
    IN  IF r.ok THEN r ELSE [r EXCEPT !.loc = cur_char_loc(content, r.head)]

\* parser.rs 115-136
skip_ws(content, h) == skip_ws_loop(content, h, <<>>)

(***************************************************************************)
(* Tokens (parser.rs 139-218).                                             *)
(***************************************************************************)
NoTok == [kind |-> "none", text |-> <<>>]

NoErr == [kind |-> "none", ch |-> None]

Tok(kind, text) == [kind |-> kind, text |-> text]

\* parser.rs 150-155
is_void(tok) == tok.kind = "Void"

RECURSIVE read_cur_word_loop(_, _, _)
\* parser.rs 192-198
read_cur_word_loop(content, h, word_string) ==
    LET ch == peek_cur_char(content, h)
    IN  IF ch = None \/ ~is_ascii_alphabetic(ch)
        THEN [head |-> h, text |-> word_string]
        ELSE read_cur_word_loop(content, goto_next_char(content, h),
                                word_string \o Utf8OfChar(ch))

RECURSIVE read_cur_alnum_loop(_, _, _)
\* the loop of read_cur_word with is_ascii_alphanumeric for is_ascii_alphabetic
read_cur_alnum_loop(content, h, word_string) ==
    LET ch == peek_cur_char(content, h)
    IN  IF ch = None \/ ~(is_ascii_alphabetic(ch) \/ is_ascii_digit(ch))
        THEN [head |-> h, text |-> word_string]
        ELSE read_cur_alnum_loop(content, goto_next_char(content, h),
                                 word_string \o Utf8OfChar(ch))

\* read_cur_word taking letters and digits alike
read_cur_word_alnum(content, h) ==
    LET loc == cur_char_loc(content, h)
        run == read_cur_alnum_loop(content, h, <<>>)
    IN  [head |-> run.head, text |-> run.text,
         loc |-> [loc EXCEPT !.raw_length = Len(run.text)]]

\* parser.rs 189-202
read_cur_word(content, h) ==
    LET loc == cur_char_loc(content, h)
        run == read_cur_word_loop(content, h, <<>>)
    IN  [head |-> run.head, text |-> run.text,
         loc |-> [loc EXCEPT !.raw_length = Len(run.text)]]

RECURSIVE read_cur_integer_loop(_, _, _)
\* parser.rs 207-213
read_cur_integer_loop(content, h, integer_string) ==
    LET ch == peek_cur_char(content, h)
    IN  IF ch = None \/ ~is_ascii_digit(ch)
        THEN [head |-> h, text |-> integer_string]
        ELSE read_cur_integer_loop(content, goto_next_char(content, h),
                                   integer_string \o Utf8OfChar(ch))

\* parser.rs 204-217
read_cur_integer(content, h) ==
    LET loc == cur_char_loc(content, h)
        run == read_cur_integer_loop(content, h, <<>>)
    IN  [head |-> run.head, text |-> run.text,
         loc |-> [loc EXCEPT !.raw_length = Len(run.text)]]

\* a one-character token returned without moving the head
read_cur_single_stay(content, h, kind) ==
    [ok |-> TRUE, head |-> h, tok |-> Tok(kind, Utf8OfChar(peek_cur_char(content, h))),
     err |-> NoErr, loc |-> cur_char_loc(content, h)]

\* parser.rs 170-181: a one-character token; the head moves first, and the Loc
\* is taken from the moved head
read_cur_single(content, h, kind) ==
    LET ch == peek_cur_char(content, h)
        after == goto_next_char(content, h)
    IN  [ok |-> TRUE, head |-> after, tok |-> Tok(kind, Utf8OfChar(ch)), err |-> NoErr,
         loc |-> cur_char_loc(content, after)]

\* parser.rs 159-187
read_cur_tok(content, h) ==
    LET skipped == skip_ws(content, h)
        at == skipped.head
        ch == peek_cur_char(content, at)
    IN  IF ~skipped.ok
        THEN [ok |-> FALSE, head |-> at, tok |-> NoTok,
              err |-> [kind |-> "EofInComment", ch |-> None], loc |-> skipped.loc]
        ELSE CASE ch # None /\ is_ascii_alphabetic(ch) ->
                    LET w == read_cur_word(content, at)
                    IN  [ok |-> TRUE, head |-> w.head, tok |-> Tok("Word", w.text),
                         err |-> NoErr, loc |-> w.loc]
               [] ch # None /\ is_ascii_digit(ch) ->
                    LET n == read_cur_integer(content, at)
                    IN  [ok |-> TRUE, head |-> n.head, tok |-> Tok("Integer", n.text),
                         err |-> NoErr, loc |-> n.loc]
               [] ch \in {"+", "-", "*", "/"} -> read_cur_single(content, at, "BinOp")
               [] ch \in {"(", "[", "{"} -> read_cur_single(content, at, "Left")
               [] ch \in {")", "]", "}"} -> read_cur_single(content, at, "Right")
               [] ch = None ->
                    [ok |-> TRUE, head |-> at, tok |-> Tok("Void", <<>>), err |-> NoErr,
                     loc |-> cur_char_loc(content, at)]
               [] OTHER ->
                    [ok |-> FALSE, head |-> at, tok |-> NoTok,
                     err |-> [kind |-> "UnexpectedCharacter", ch |-> ch],
                     loc |-> cur_char_loc(content, at)]

(***************************************************************************)
(* The operations on a source unit and its reading head.                   *)
(***************************************************************************)
\* ret: the operation, the head before it (from), the token kind the previous
\* successful read_cur_tok returned (prev), how many tokens other than Void
\* read_cur_tok has returned so far (ntok), and the operation's result
NoRet ==
    [op |-> "none", from |-> from_scu, prev |-> "none", ntok |-> 0, ok |-> TRUE,
     tok |-> NoTok, err |-> NoErr, loc |-> NoLoc]

NoNode == [sort |-> "none", depth |-> 0, tree |-> [kind |-> "none"]]

InitLex ==
    /\ src \in Sources
    /\ scu = NoScu
    /\ head = from_scu
    /\ ret = NoRet
    /\ node = NoNode
    /\ checked = <<>>
    /\ lowered = <<>>

\* SourceCodeUnit::from_str, then ReadingHead::from_scu on it
FromStr ==
    /\ scu = NoScu
    /\ ret.op = "none"
    /\ scu' = from_str(src)
    /\ head' = from_scu
    /\ ret' = [NoRet EXCEPT !.op = "from_str"]
    /\ UNCHANGED <<src, astvars>>

\* ReadingHead::goto_next_char
GotoNextChar ==
    /\ ret.op # "none"
    /\ head' = goto_next_char(scu.content, head)
    /\ ret' = [NoRet EXCEPT !.op = "goto_next_char", !.from = head, !.prev = ret.prev,
                        !.ntok = ret.ntok]
    /\ UNCHANGED <<src, scu, astvars>>

\* ReadingHead::skip_ws
SkipWs ==
    /\ ret.op # "none"
    /\ LET r == skip_ws(scu.content, head)
       IN  /\ head' = r.head
           /\ ret' = [NoRet EXCEPT !.op = "skip_ws", !.from = head, !.prev = ret.prev,
                                   !.ntok = ret.ntok,
                                   !.ok = r.ok,
                                   !.err = IF r.ok THEN NoErr
                                           ELSE [kind |-> "EofInComment", ch |-> None],
                                   !.loc = r.loc]
    /\ UNCHANGED <<src, scu, astvars>>

\* ReadingHead::read_cur_tok
ReadCurTok ==
    /\ ret.op # "none"
    /\ LET r == read_cur_tok(scu.content, head)
       IN  /\ head' = r.head
           /\ ret' = [op |-> "read_cur_tok", from |-> head,
                      prev |-> IF ret.op = "read_cur_tok" /\ ret.ok THEN ret.tok.kind
                               ELSE ret.prev,
                      ntok |-> IF r.ok /\ ~is_void(r.tok) THEN ret.ntok + 1 ELSE ret.ntok,
                      ok |-> r.ok, tok |-> r.tok, err |-> r.err, loc |-> r.loc]
    /\ UNCHANGED <<src, scu, astvars>>

NextLex == FromStr \/ GotoNextChar \/ SkipWs \/ ReadCurTok

SpecLex == InitLex /\ [][NextLex]_vars

NextTok == FromStr \/ ReadCurTok

\* read_cur_tok called again and again by the grammar layer, as spec 6 has it
SpecTok == InitLex /\ [][NextTok]_vars

(***************************************************************************)
(* The AST (ast.rs 77-135).  A node is a record with its variant in kind   *)
(* and its children in the fields the code names; Option<T> is <<>> for    *)
(* None and <<x>> for Some(x), Vec<T> is a sequence.                       *)
(***************************************************************************)
\* ast.rs 81-109
StmtNop == [kind |-> "Nop"]

StmtNewline == [kind |-> "Newline"]

StmtInvalid == [kind |-> "Invalid"]

StmtOfExpr(kind, expr) == [kind |-> kind, expr |-> expr]

StmtAssign(target, expr) == [kind |-> "Assign", target |-> target, expr |-> expr]

StmtIf(cond_expr, th_stmt, el_stmt) ==
    [kind |-> "If", cond_expr |-> cond_expr, th_stmt |-> th_stmt, el_stmt |-> el_stmt]

ExprStmtKinds == {"Print", "Evaluate", "Do", "DoHere", "DoFileHere"}

\* ast.rs 111-114
TargetVariableName(name) == [kind |-> "VariableName", name |-> name]

TargetInvalid == [kind |-> "Invalid"]

\* ast.rs 116-126
ExprVariableName(name) == [kind |-> "VariableName", name |-> name]

ExprIntegerLiteral(digits) == [kind |-> "IntegerLiteral", digits |-> digits]

ExprStringLiteral(string) == [kind |-> "StringLiteral", string |-> string]

ExprBlockLiteral(stmts) == [kind |-> "BlockLiteral", stmts |-> stmts]

ExprChain(init, chops) == [kind |-> "Chain", init |-> init, chops |-> chops]

ExprInvalid == [kind |-> "Invalid"]

\* ast.rs 128-135
ChopOf(kind, expr) == [kind |-> kind, expr |-> expr]

ChopInvalid == [kind |-> "Invalid"]

ChopKinds == {"Plus", "Minus", "Star", "Slash", "ToRight"}

\* ast.rs 77-79
Program(stmts) == [kind |-> "Program", stmts |-> stmts]

(***************************************************************************)
(* is_invalid (ast.rs 316-346, 393-398, 402-414, 448-457).                 *)
(***************************************************************************)
RECURSIVE Stmt_is_invalid(_), Expr_is_invalid(_), Chop_is_invalid(_)

\* ast.rs 393-398
TargetExpr_is_invalid(target) == target.kind = "Invalid"

\* ast.rs 316-346
Stmt_is_invalid(stmt) ==
    CASE stmt.kind = "Nop" -> FALSE
      [] stmt.kind \in ExprStmtKinds -> Expr_is_invalid(stmt.expr)
      [] stmt.kind = "Newline" -> FALSE
      [] stmt.kind = "Assign" ->
            TargetExpr_is_invalid(stmt.target) \/ Expr_is_invalid(stmt.expr)
      [] stmt.kind = "If" ->
            \/ Expr_is_invalid(stmt.cond_expr)
            \/ (IF stmt.th_stmt = <<>> THEN FALSE ELSE Stmt_is_invalid(stmt.th_stmt[1]))
            \/ (IF stmt.el_stmt = <<>> THEN FALSE ELSE Stmt_is_invalid(stmt.el_stmt[1]))
      [] stmt.kind = "Invalid" -> TRUE

\* ast.rs 402-414
Expr_is_invalid(expr) ==
    CASE expr.kind = "VariableName" -> FALSE
      [] expr.kind = "IntegerLiteral" -> FALSE
      [] expr.kind = "StringLiteral" -> FALSE
      [] expr.kind = "BlockLiteral" -> FALSE
      [] expr.kind = "Chain" ->
            \/ Expr_is_invalid(expr.init)
            \/ \E i \in 1..Len(expr.chops) : Chop_is_invalid(expr.chops[i])
      [] expr.kind = "Invalid" -> TRUE

\* ast.rs 448-457
Chop_is_invalid(chop) ==
    CASE chop.kind \in ChopKinds -> Expr_is_invalid(chop.expr)
      [] chop.kind = "Invalid" -> TRUE

(***************************************************************************)
(* The lowering to the program IR (ast.rs 303-313, 348-389, 416-444,       *)
(* 459-468).  A panic (unreachable!, todo!) ends the whole lowering: it is *)
(* the result of every call it unwinds through.                            *)
(***************************************************************************)
Panic(what) == [kind |-> "panic", what |-> what]

IsPanic(ir) == ir.kind = "panic"

\* the panics among results, in the order of evaluation
Panics(results) == SelectSeq(results, IsPanic)

\* a value built from results, unless one of them panicked: then the first panic
Built(results, value) == IF Panics(results) = <<>> THEN value ELSE Panics(results)[1]

DigitValue(d) ==
    CASE d = "0" -> 0 [] d = "1" -> 1 [] d = "2" -> 2 [] d = "3" -> 3 [] d = "4" -> 4
      [] d = "5" -> 5 [] d = "6" -> 6 [] d = "7" -> 7 [] d = "8" -> 8 [] d = "9" -> 9

RECURSIVE parse(_)
\* str::parse of a string of digits (ast.rs 422); the literals of the model are
\* below 128, within every integer type of Rust, so that expect never fails
parse(digits) ==
    IF digits = <<>> THEN 0
    ELSE 10 * parse(SubSeq(digits, 1, Len(digits) - 1)) + DigitValue(digits[Len(digits)])

RECURSIVE Stmt_to_machine_stmt(_), Expr_to_machine_expr(_), Chop_to_machine_chop(_)

\* ast.rs 309, 431: .iter().map(|stmt_node| ...to_machine_stmt()).collect()
map_to_machine_stmt(stmts) == [i \in 1..Len(stmts) |-> Stmt_to_machine_stmt(stmts[i])]

\* ast.rs 437-440: .iter().map(|chop_node| ...to_machine_chop()).collect()
map_to_machine_chop(chops) == [i \in 1..Len(chops) |-> Chop_to_machine_chop(chops[i])]

\* the branch of an If lowered with Nop standing for an absent branch
map_branch_or_nop(branch) ==
    IF branch = <<>> THEN <<[kind |-> "Nop"]>> ELSE <<Stmt_to_machine_stmt(branch[1])>>

\* ast.rs 380-385: .as_ref().map(|stmt| Box::new(...to_machine_stmt()))
map_branch(branch) ==
    IF branch = <<>> THEN <<>> ELSE <<Stmt_to_machine_stmt(branch[1])>>

\* ast.rs 303-313
Program_to_machine_block(program) ==
    LET stmts == map_to_machine_stmt(program.stmts)
    IN  Built(stmts, [kind |-> "Block", stmts |-> stmts])

\* ast.rs 348-389
Stmt_to_machine_stmt(stmt) ==
    CASE stmt.kind = "Nop" -> [kind |-> "Nop"]
      [] stmt.kind \in ExprStmtKinds ->
            LET expr == Expr_to_machine_expr(stmt.expr)
            IN  Built(<<expr>>, [kind |-> stmt.kind, expr |-> expr])
      [] stmt.kind = "Newline" -> [kind |-> "Newline"]
      [] stmt.kind = "Assign" ->
            LET varname == IF stmt.target.kind = "VariableName"
                           THEN [kind |-> "varname", name |-> stmt.target.name]
                           ELSE Panic("todo: TargetExpr::Invalid")
                expr == Expr_to_machine_expr(stmt.expr)
            IN  IF IsPanic(varname) THEN varname
                ELSE Built(<<expr>>,
                           [kind |-> "Assign", varname |-> varname.name, expr |-> expr])
      [] stmt.kind = "If" ->
            LET cond_expr == Expr_to_machine_expr(stmt.cond_expr)
                th_stmt == map_branch(stmt.th_stmt)
                el_stmt == map_branch(stmt.el_stmt)
            IN  Built(<<cond_expr>> \o th_stmt \o el_stmt,
                      [kind |-> "If", cond_expr |-> cond_expr,
                       th_stmt |-> th_stmt, el_stmt |-> el_stmt])
      [] stmt.kind = "Invalid" -> [kind |-> "Invalid"]

\* ast.rs 416-444
Expr_to_machine_expr(expr) ==
    CASE expr.kind = "VariableName" -> [kind |-> "Var", varname |-> expr.name]
      [] expr.kind = "IntegerLiteral" ->
            [kind |-> "Const", val |-> [obj |-> "Integer", int |-> parse(expr.digits)]]
      [] expr.kind = "StringLiteral" ->
            [kind |-> "Const", val |-> [obj |-> "String", string |-> expr.string]]
      [] expr.kind = "BlockLiteral" ->
            LET stmts == map_to_machine_stmt(expr.stmts)
            IN  Built(stmts, [kind |-> "Const",
                              val |-> [obj |-> "Block",
                                       block |-> [kind |-> "Block", stmts |-> stmts]]])
      [] expr.kind = "Chain" ->
            LET init_expr == Expr_to_machine_expr(expr.init)
                chops == map_to_machine_chop(expr.chops)
            IN  Built(<<init_expr>> \o chops,
                      [kind |-> "Chain", init_expr |-> init_expr, chops |-> chops])
      [] expr.kind = "Invalid" -> Panic("unreachable: Expr::Invalid")

\* ast.rs 459-468
Chop_to_machine_chop(chop) ==
    CASE chop.kind \in ChopKinds ->
            LET expr == Expr_to_machine_expr(chop.expr)
            IN  Built(<<expr>>, [kind |-> chop.kind, expr |-> expr])
      [] chop.kind = "Invalid" -> Panic("unreachable: Chop::Invalid")

(***************************************************************************)
(* The AST nodes the grammar layer builds, one constructor over another,   *)
(* and the calls of is_invalid and of the lowering on them.                *)
(***************************************************************************)
Node(sort, depth, tree) == [sort |-> sort, depth |-> depth, tree |-> tree]

StmtLeaves == {StmtNop, StmtNewline, StmtInvalid}

TargetLeaves == {TargetVariableName("x"), TargetInvalid}

ExprLeaves ==
    { ExprVariableName("x"), ExprIntegerLiteral(<<"4", "2">>), ExprIntegerLiteral(<<"0", "7">>),
      ExprStringLiteral("hi"), ExprBlockLiteral(<<>>), ExprInvalid }

\* the siblings a constructor is given next to the node it wraps
SiblingExprs == {ExprVariableName("y"), ExprInvalid}

StmtsBefore == {<<>>, <<StmtNop>>}

StmtsAfter == {<<>>, <<StmtInvalid>>}

ChopsBefore == {<<>>, <<ChopOf("Minus", ExprIntegerLiteral(<<"1">>))>>}

ChopsAfter == {<<>>, <<ChopInvalid>>}

InitAst ==
    /\ src = <<>>
    /\ scu = NoScu
    /\ head = from_scu
    /\ ret = NoRet
    /\ node \in {Node("Stmt", 0, s) : s \in StmtLeaves}
                \cup {Node("Expr", 0, e) : e \in ExprLeaves}
                \cup {Node("TargetExpr", 0, x) : x \in TargetLeaves}
                \cup {Node("Chop", 0, ChopInvalid)}
    /\ checked = <<>>
    /\ lowered = <<>>

\* node becomes the child of a new node
Wrap(sort, tree) ==
    /\ node.depth < MaxDepth
    /\ node' = Node(sort, node.depth + 1, tree)
    /\ checked' = <<>>
    /\ lowered' = <<>>
    /\ UNCHANGED lexvars

\* Stmt::Print, Evaluate, Do, DoHere, DoFileHere
MkExprStmt ==
    /\ node.sort = "Expr"
    /\ \E kind \in ExprStmtKinds : Wrap("Stmt", StmtOfExpr(kind, node.tree))

\* Stmt::Assign
MkAssign ==
    \/ /\ node.sort = "Expr"
       /\ \E target \in TargetLeaves : Wrap("Stmt", StmtAssign(target, node.tree))
    \/ /\ node.sort = "TargetExpr"
       /\ \E expr \in SiblingExprs : Wrap("Stmt", StmtAssign(node.tree, expr))

\* Stmt::If
MkIf ==
    \/ /\ node.sort = "Expr"
       /\ \E th \in StmtsBefore, el \in StmtsAfter : Wrap("Stmt", StmtIf(node.tree, th, el))
    \/ /\ node.sort = "Stmt"
       /\ \E cond \in SiblingExprs :
             \/ \E el \in StmtsAfter : Wrap("Stmt", StmtIf(cond, <<node.tree>>, el))
             \/ \E th \in StmtsBefore : Wrap("Stmt", StmtIf(cond, th, <<node.tree>>))

\* Expr::BlockLiteral
MkBlockLiteral ==
    /\ node.sort = "Stmt"
    /\ \E before \in StmtsBefore, after \in StmtsAfter :
          Wrap("Expr", ExprBlockLiteral(before \o <<node.tree>> \o after))

\* Chop::Plus, Minus, Star, Slash, ToRight
MkChop ==
    /\ node.sort = "Expr"
    /\ \E kind \in ChopKinds : Wrap("Chop", ChopOf(kind, node.tree))

\* Expr::Chain
MkChain ==
    \/ /\ node.sort = "Expr"
       /\ \E chops \in ChopsBefore \cup ChopsAfter : Wrap("Expr", ExprChain(node.tree, chops))
    \/ /\ node.sort = "Chop"
       /\ \E init \in SiblingExprs, before \in ChopsBefore, after \in ChopsAfter :
             Wrap("Expr", ExprChain(init, before \o <<node.tree>> \o after))

\* Program
MkProgram ==
    /\ node.sort = "Stmt"
    /\ \E before \in StmtsBefore, after \in StmtsAfter :
          Wrap("Program", Program(before \o <<node.tree>> \o after))

\* is_invalid of the sort of n
is_invalid(n) ==
    CASE n.sort = "Stmt" -> Stmt_is_invalid(n.tree)
      [] n.sort = "Expr" -> Expr_is_invalid(n.tree)
      [] n.sort = "Chop" -> Chop_is_invalid(n.tree)
      [] n.sort = "TargetExpr" -> TargetExpr_is_invalid(n.tree)

\* the lowering of the sort of n
to_machine(n) ==
    CASE n.sort = "Stmt" -> Stmt_to_machine_stmt(n.tree)
      [] n.sort = "Expr" -> Expr_to_machine_expr(n.tree)
      [] n.sort = "Chop" -> Chop_to_machine_chop(n.tree)
      [] n.sort = "Program" -> Program_to_machine_block(n.tree)

IsInvalid ==
    /\ node.sort \in {"Stmt", "Expr", "Chop", "TargetExpr"}
    /\ checked = <<>>
    /\ checked' = <<is_invalid(node)>>
    /\ UNCHANGED <<lexvars, node, lowered>>

Lower ==
    /\ node.sort \in {"Stmt", "Expr", "Chop", "Program"}
    /\ lowered = <<>>
    /\ lowered' = <<to_machine(node)>>
    /\ UNCHANGED <<lexvars, node, checked>>

NextAst ==
    \/ MkExprStmt \/ MkAssign \/ MkIf \/ MkBlockLiteral \/ MkChop \/ MkChain \/ MkProgram
    \/ IsInvalid \/ Lower

SpecAst == InitAst /\ [][NextAst]_vars

(***************************************************************************)
(* What the claims about the source unit and the reading head speak of.    *)
(***************************************************************************)
HasScu == ret.op # "none"

\* the number of '\n' bytes among the first o bytes of s
NewlinesBefore(s, o) == Cardinality({i \in 1..o : s[i] = "\n"})

\* the number of '#' bytes of s from offset a up to, not including, offset b
HashesBetween(s, a, b) == Cardinality({i \in (a + 1)..b : s[i] = "#"})

EndsWithNewline(s) == Len(s) > 0 /\ s[Len(s)] = "\n"

\* a comment is open at offset p for a skip_ws that started at offset a
CommentOpen(s, a, p) == HashesBetween(s, a, p) % 2 = 1

\* the offsets where a skip_ws that started at offset a may stop successfully
StopPoints(s, a) ==
    {p \in a..Len(s) :
        /\ ~CommentOpen(s, a, p)
        /\ (p = Len(s) \/ s[p + 1] \notin {"#", " ", "\t", "\n", "\f", "\r"})}

\* the offset of the last '#' of s at or after offset a
LastHash(s, a) ==
    CHOOSE p \in a..(Len(s) - 1) :
        /\ s[p + 1] = "#"
        /\ \A q \in (p + 1)..(Len(s) - 1) : s[q + 1] # "#"

\* the longest run of bytes of class, starting at offset o of s
MaximalRun(s, o, class) ==
    LET ends == {e \in o..Len(s) : \A i \in (o + 1)..e : s[i] \in class}
        e == CHOOSE x \in ends : \A y \in ends : y <= x
    IN  SubSeq(s, o + 1, e)

CommentExample == Utf8(<<"#", " ", "c", "o", "m", "m", "e", "n", "t", "\n", "x">>)

WordIntegerExample == Utf8(<<"a", "b", "c", "1", "2", "3">>)

FirstCall == ret.op = "read_cur_tok" /\ ret.from = from_scu /\ ret.prev = "none"

\* C1: a successful read_cur_tok returns a Loc that starts at the first byte
\* consumed for the token, on that byte's line, and is as long as the run of a
\* Word or Integer, 1 for a BinOp, Left or Right, 0 for Void.
C1_TokenLocation ==
    (ret.op = "read_cur_tok" /\ ret.ok) =>
        LET start == head.raw_index - Len(ret.tok.text)
        IN  /\ ret.loc.raw_index_start = start
            /\ ret.loc.line_start = 1 + NewlinesBefore(scu.content, start)
            /\ ret.loc.raw_length =
                  CASE ret.tok.kind \in {"Word", "Integer"} -> Len(ret.tok.text)
                    [] ret.tok.kind \in {"BinOp", "Left", "Right"} -> 1
                    [] OTHER -> 0

\* C4: the content that from_str builds ends with '\n', is s itself when s ends
\* with '\n' and s plus one '\n' otherwise, and line_offsets has one entry more
\* than content has '\n' bytes.
C4_FromStr ==
    HasScu =>
        /\ EndsWithNewline(scu.content)
        /\ scu.content = IF EndsWithNewline(src) THEN src ELSE src \o <<"\n">>
        /\ Len(scu.line_offsets) = 1 + NewlinesBefore(scu.content, Len(scu.content))

\* C5 as the spec states it: the first read_cur_tok on "# comment\nx" returns
\* Word("x") with line_start 2.
C5_CommentThenWord ==
    (src = CommentExample /\ FirstCall) =>
        /\ ret.ok
        /\ ret.tok = Tok("Word", <<"x">>)
        /\ ret.loc.line_start = 2

\* C5 amended: on "# comment\nx" the '#' opens a comment that nothing closes,
\* so the first read_cur_tok fails with EofInComment, whose Loc is that of the
\* '#': line_start 1, raw_index_start 0.
C5_CommentUnterminated ==
    (src = CommentExample /\ FirstCall) =>
        /\ ~ret.ok
        /\ ret.err.kind = "EofInComment"
        /\ ret.loc = [line_start |-> 1, raw_index_start |-> 0, raw_length |-> 1]

C5_Witness == src = CommentExample /\ FirstCall /\ head.raw_index = Len(scu.content)

\* C6: skip_ws toggles the comment state at every '#'; it fails, with
\* EofInComment, exactly when the end of input is reached with a comment open,
\* and the error's Loc is that of the '#' that opened this comment.
C6_SkipWs ==
    ret.op = "skip_ws" =>
        LET s == scu.content
            a == ret.from.raw_index
            stops == StopPoints(s, a)
        IN  /\ ret.ok <=> stops # {}
            /\ ret.ok => /\ head.raw_index \in stops
                         /\ \A p \in stops : head.raw_index <= p
                         /\ ret.err = NoErr
            /\ ~ret.ok =>
                  /\ CommentOpen(s, a, Len(s))
                  /\ head.raw_index = Len(s)
                  /\ ret.err.kind = "EofInComment"
                  /\ ret.loc.raw_index_start = LastHash(s, a)
                  /\ ret.loc.line_start = 1 + NewlinesBefore(s, LastHash(s, a))
                  /\ ret.loc.raw_length = 1

\* an earlier comment was closed on line 1, the open one starts on a later line
\* and the input ends on a line after that
C6_Witness ==
    /\ ret.op = "skip_ws"
    /\ ~ret.ok
    /\ HashesBetween(scu.content, ret.from.raw_index, Len(scu.content)) = 3
    /\ ret.loc.line_start > 1
    /\ ret.loc.line_start < head.line

\* C7: the first character left after skipping decides what read_cur_tok
\* returns: Word or Integer of the maximal run, BinOp, Left, Right, Void at the
\* end of input, UnexpectedCharacter otherwise; "abc123" gives Word("abc") and
\* then Integer("123"), "@" gives UnexpectedCharacter('@').
C7_Classification ==
    (ret.op = "read_cur_tok" /\ skip_ws(scu.content, ret.from).ok) =>
        LET s == scu.content
            at == skip_ws(s, ret.from).head
            c == peek_cur_char(s, at)
        IN  /\ c \in AsciiLetters =>
                  ret.ok /\ ret.tok = Tok("Word", MaximalRun(s, at.raw_index, AsciiLetters))
            /\ c \in AsciiDigits =>
                  ret.ok /\ ret.tok = Tok("Integer", MaximalRun(s, at.raw_index, AsciiDigits))
            /\ c \in {"+", "-", "*", "/"} => ret.ok /\ ret.tok = Tok("BinOp", <<c>>)
            /\ c \in {"(", "[", "{"} => ret.ok /\ ret.tok = Tok("Left", <<c>>)
            /\ c \in {")", "]", "}"} => ret.ok /\ ret.tok = Tok("Right", <<c>>)
            /\ c = None => ret.ok /\ ret.tok = Tok("Void", <<>>)
            /\ c \notin AsciiLetters \cup AsciiDigits \cup {None}
                        \cup {"+", "-", "*", "/", "(", "[", "{", ")", "]", "}"} =>
                  ~ret.ok /\ ret.err = [kind |-> "UnexpectedCharacter", ch |-> c]
            /\ (src = WordIntegerExample /\ FirstCall) =>
                  ret.tok = Tok("Word", <<"a", "b", "c">>) /\ head.raw_index = 3
            /\ (src = WordIntegerExample /\ ret.from.raw_index = 3) =>
                  ret.tok = Tok("Integer", <<"1", "2", "3">>)
            /\ (src = <<"@">> /\ FirstCall) =>
                  ~ret.ok /\ ret.err = [kind |-> "UnexpectedCharacter", ch |-> "@"]

C7_Witness ==
    /\ src = WordIntegerExample
    /\ ret.op = "read_cur_tok"
    /\ ret.prev = "Word"
    /\ ret.from.raw_index = 3
    /\ ret.tok = Tok("Integer", <<"1", "2", "3">>)

\* C8: read_cur_tok called repeatedly comes to a Void token or to an error
\* after finitely many calls (at most one token per byte of content is
\* returned before); a call that returns another token moves the head forward,
\* and a call that follows a Void returns Void and leaves the head where it is.
C8_Termination ==
    ret.op = "read_cur_tok" =>
        /\ ret.ntok <= Len(scu.content)
        /\ (ret.ok /\ ~is_void(ret.tok)) => head.raw_index > ret.from.raw_index
        /\ ret.prev = "Void" => ret.ok /\ is_void(ret.tok) /\ head = ret.from

\* tokens were read, then Void, then Void again
C8_Witness ==
    /\ ret.op = "read_cur_tok"
    /\ ret.prev = "Void"
    /\ ret.ok /\ is_void(ret.tok)
    /\ ret.ntok > 1

\* C10: the head's offset never passes the end of content, its line is 1 plus
\* the '\n' bytes before the offset, and goto_next_char at the end of input
\* leaves the head as it is.
C10_HeadInvariant ==
    HasScu =>
        /\ head.raw_index <= Len(scu.content)
        /\ head.line = 1 + NewlinesBefore(scu.content, head.raw_index)
        /\ (ret.op = "goto_next_char" /\ ret.from.raw_index = Len(scu.content)) =>
              head = ret.from

\* goto_next_char was called at the end of an input of several lines
C10_Witness ==
    /\ ret.op = "goto_next_char"
    /\ ret.from.raw_index = Len(scu.content)
    /\ head.line > 2
    /\ head = ret.from

(***************************************************************************)
(* What the claims about the AST speak of.                                 *)
(***************************************************************************)
Range(seq) == {seq[i] : i \in 1..Len(seq)}

\* the nodes n owns directly, each with its sort
OwnedChildren(n) ==
    LET x == n.tree
        Of(sort, trees) == {[sort |-> sort, tree |-> y] : y \in trees}
    IN  CASE n.sort = "Stmt" /\ x.kind \in ExprStmtKinds -> Of("Expr", {x.expr})
          [] n.sort = "Stmt" /\ x.kind = "Assign" ->
                Of("TargetExpr", {x.target}) \cup Of("Expr", {x.expr})
          [] n.sort = "Stmt" /\ x.kind = "If" ->
                Of("Expr", {x.cond_expr}) \cup Of("Stmt", Range(x.th_stmt) \cup Range(x.el_stmt))
          [] n.sort = "Expr" /\ x.kind = "BlockLiteral" -> Of("Stmt", Range(x.stmts))
          [] n.sort = "Expr" /\ x.kind = "Chain" ->
                Of("Expr", {x.init}) \cup Of("Chop", Range(x.chops))
          [] n.sort = "Chop" /\ x.kind \in ChopKinds -> Of("Expr", {x.expr})
          [] OTHER -> {}

RECURSIVE SameShapeStmt(_, _), SameShapeExpr(_, _), SameShapeChop(_, _)

SameShapeStmts(stmts, irs) ==
    /\ Len(irs) = Len(stmts)
    /\ \A i \in 1..Len(stmts) : SameShapeStmt(stmts[i], irs[i])

\* the IR statement is of the statement's kind, with branches absent where the
\* statement's are, and so on below
SameShapeStmt(stmt, ir) ==
    /\ ir.kind = stmt.kind
    /\ stmt.kind \in ExprStmtKinds \cup {"Assign"} => SameShapeExpr(stmt.expr, ir.expr)
    /\ stmt.kind = "If" =>
          /\ SameShapeExpr(stmt.cond_expr, ir.cond_expr)
          /\ SameShapeStmts(stmt.th_stmt, ir.th_stmt)
          /\ SameShapeStmts(stmt.el_stmt, ir.el_stmt)

SameShapeExpr(expr, ir) ==
    CASE expr.kind = "BlockLiteral" ->
            /\ ir.kind = "Const"
            /\ ir.val.obj = "Block"
            /\ SameShapeStmts(expr.stmts, ir.val.block.stmts)
      [] expr.kind = "Chain" ->
            /\ ir.kind = "Chain"
            /\ SameShapeExpr(expr.init, ir.init_expr)
            /\ Len(ir.chops) = Len(expr.chops)
            /\ \A i \in 1..Len(expr.chops) : SameShapeChop(expr.chops[i], ir.chops[i])
      [] expr.kind = "VariableName" -> ir.kind = "Var"
      [] OTHER -> ir.kind = "Const"

SameShapeChop(chop, ir) ==
    /\ ir.kind = chop.kind
    /\ ir.kind \in ChopKinds
    /\ SameShapeExpr(chop.expr, ir.expr)

SameShape(n, ir) ==
    CASE n.sort = "Stmt" -> SameShapeStmt(n.tree, ir)
      [] n.sort = "Expr" -> SameShapeExpr(n.tree, ir)
      [] n.sort = "Chop" -> SameShapeChop(n.tree, ir)
      [] n.sort = "Program" -> ir.kind = "Block" /\ SameShapeStmts(n.tree.stmts, ir.stmts)

\* C2: is_invalid of a Stmt, Expr, Chop or TargetExpr is true exactly when the
\* node is the Invalid variant or is_invalid is true of a node it owns.
C2_InvalidIffOwned ==
    checked # <<>> =>
        (checked[1] <=> (\/ node.tree.kind = "Invalid"
                         \/ \E child \in OwnedChildren(node) : is_invalid(child)))

\* C3: a Stmt, Expr or Chop of which is_invalid is false is lowered without
\* reaching unreachable!() or todo!().
C3_ValidLowers ==
    (checked = <<FALSE>> /\ lowered # <<>>) => ~IsPanic(lowered[1])

\* C9: the lowering keeps the shape: the kind of every statement, the number
\* and order of the statements of a Program or BlockLiteral, the number, order
\* and tags of the chops of a Chain, and which branches of an If are absent.
C9_ShapePreserved ==
    (lowered # <<>> /\ ~IsPanic(lowered[1])) => SameShape(node, lowered[1])

\* an If with no then branch and an else branch, on a Chain of two chops
C9_Witness ==
    /\ lowered # <<>>
    /\ ~IsPanic(lowered[1])
    /\ node.sort = "Stmt"
    /\ node.tree.kind = "If"
    /\ node.tree.th_stmt = <<>>
    /\ node.tree.el_stmt # <<>>
    /\ node.tree.cond_expr.kind = "Chain"
    /\ Len(node.tree.cond_expr.chops) = 2
    /\ lowered[1].th_stmt = <<>>

====
